---- MODULE Spec2Model ----
(***************************************************************************)
(* Quiz-LM filter module (src/js/filter.js) and its question database      *)
(* (database.js, src/unnamed/part_000).                                    *)
(*                                                                         *)
(* The Dexie query API is an external library.  It is modelled by the      *)
(* contract the call sites rely on: where(path).anyOf(values) restricts a  *)
(* collection to the records with an index entry of path among values,     *)
(* chained where-clauses intersect, uniqueKeys(path) yields the distinct    *)
(* index entries of path, toArray/count read the collection.  A record's   *)
(* key path a.b is the record field b; the multi-entry index *tags has one  *)
(* entry per tag.  Arrays that never hold a value twice (the selections,    *)
(* the option lists, the result list) are sets.                             *)
(***************************************************************************)
EXTENDS Integers, Sequences, FiniteSets, TLC

(***************************************************************************)
(* Bounds of the model.                                                    *)
(***************************************************************************)
\* The user keeps at most this many values selected or checked at a time, not
\* counting the topics and sub-topics under the selected subjects.
MaxSelected == 2

(***************************************************************************)
(* Program constants.                                                      *)
(***************************************************************************)
\* questions.slice(0, 25)
SampleSize == 25
\* export const DB_VERSION = '1.0'
DB_VERSION == "1.0"
\* localStorage.getItem('databaseVersion') of a browser that never ran the app
NoVersion == "null"
\* the marker an earlier release of the app left behind
OldVersion == "0.9"

FilterKeys ==
    <<"subject", "topic", "subTopic", "difficulty", "questionType",
      "examName", "examYear", "tags">>

KeySet == {FilterKeys[i] : i \in 1..Len(FilterKeys)}

\* Keys rendered as a checkbox list (populateMultiSelect, elements.list).
ListKeys == {"subject", "topic", "subTopic", "examName", "examYear", "tags"}

\* Keys rendered as a segmented control (populateSegmentedControl).
SegmentedKeys == {"difficulty", "questionType"}

Presets == {"quick_25_easy", "quick_25_moderate", "quick_25_hard", "quick_25_mix"}

(***************************************************************************)
(* Question records.                                                       *)
(***************************************************************************)
Question(id, subject, topic, subTopic, difficulty, questionType, examName, examYear, tags) ==
    [id |-> id, subject |-> subject, topic |-> topic, subTopic |-> subTopic,
     difficulty |-> difficulty, questionType |-> questionType,
     examName |-> examName, examYear |-> examYear, tags |-> tags]

\* A small mixed bank.  Two records have no sub-topic (the empty string).
SmallBank ==
    << Question(1, "Math", "Algebra", "Linear", "Easy", "MCQ", "SSC", 2020, {"pyq"}),
       Question(2, "Math", "Geometry", "", "Hard", "MCQ", "SSC", 2021, {"pyq", "tricky"}),
       Question(3, "Science", "Physics", "", "Hard", "MCQ", "SSC", 2021, {"tricky"}) >>

\* A bank of more Hard questions than one quick-start sample holds.
BigBank ==
    [i \in 1..(SampleSize + 1) |->
        Question(i, "Math", "Algebra", "Linear", "Hard", "MCQ", "SSC", 2020, {"pyq"})]

\* A bank with no Hard question.
EasyBank ==
    << Question(1, "Math", "Algebra", "Linear", "Easy", "MCQ", "SSC", 2020, {"pyq"}),
       Question(2, "Math", "Algebra", "Linear", "Medium", "MCQ", "SSC", 2020, {"pyq"}) >>

\* A questions.json that lists one id twice: the second add of id 1 fails.
DupBank ==
    << Question(1, "Math", "Algebra", "Linear", "Easy", "MCQ", "SSC", 2020, {"pyq"}),
       Question(1, "Math", "Algebra", "Linear", "Hard", "MCQ", "SSC", 2020, {"pyq"}),
       Question(2, "Math", "Algebra", "Linear", "Hard", "MCQ", "SSC", 2020, {"pyq"}) >>

\* A bank of two subjects with one topic each.
CascadeBank ==
    << Question(1, "Math", "Algebra", "Linear", "Easy", "MCQ", "SSC", 2020, {"pyq"}),
       Question(2, "Science", "Physics", "", "Easy", "MCQ", "SSC", 2020, {"pyq"}) >>

\* The records an earlier release stored.
OldBank ==
    << Question(90, "History", "Ancient", "Maurya", "Easy", "MCQ", "SSC", 2019, {"old"}) >>

\* What ./questions.json may hold when it is fetched.
Banks == {SmallBank, BigBank, EasyBank, DupBank, << >>}

Range(s) == {s[i] : i \in 1..Len(s)}

(***************************************************************************)
(* The store's query API.                                                  *)
(***************************************************************************)
\* getQuestionValuePath: the index entries of record r under a key's path.
KeysOf(r, key) == IF key = "tags" THEN r.tags ELSE {r[key]}

RECURSIVE DigitsOf(_)
\* String(n) for a natural number: its decimal digits.
DigitsOf(n) == IF n < 10 THEN <<n>> ELSE Append(DigitsOf(n \div 10), n % 10)

RECURSIVE ValueOf(_)
ValueOf(ds) ==
    IF ds = << >> THEN 0 ELSE 10 * ValueOf(SubSeq(ds, 1, Len(ds) - 1)) + ds[Len(ds)]

\* parseInt(y, 10) of a number: the digits of String(y), read back in base 10.
ParseInt(y) == ValueOf(DigitsOf(y))

\* selected.map(y => parseInt(y, 10)) for examYear, the selection itself otherwise.
QueryValues(key, selected) ==
    IF key = "examYear" THEN {ParseInt(y) : y \in selected} ELSE selected

\* query.where(path).anyOf(values)
AnyOf(query, key, values) == {r \in query : KeysOf(r, key) \cap values # {}}

\* query.where(path).equals(value)
EqualTo(query, key, value) == {r \in query : value \in KeysOf(r, key)}

RECURSIVE WhereFrom(_, _, _, _)
\* The keys from the i-th on, in the order of config.filterKeys: each key not
\* skipped whose selection is non-empty narrows the query by where/anyOf.
WhereFrom(query, filters, skip, i) ==
    IF i > Len(FilterKeys)
    THEN query
    ELSE WhereFrom(
            IF FilterKeys[i] \in skip \/ filters[FilterKeys[i]] = {}
            THEN query
            ELSE AnyOf(query, FilterKeys[i],
                       QueryValues(FilterKeys[i], filters[FilterKeys[i]])),
            filters, skip, i + 1)

\* db.questions.toCollection() narrowed by every key but those of skip.
WhereAll(questions, filters, skip) == WhereFrom(questions, filters, skip, 1)

\* uniqueKeys(path)
UniqueKeys(questions, key) == UNION {KeysOf(r, key) : r \in questions}

\* .filter(Boolean): '' and 0 are dropped.
Truthy(key, v) == IF key = "examYear" THEN v # 0 ELSE v # ""

EmptyFilters == [k \in KeySet |-> {}]

\* The keys whose lists updateDependentFilters rebuilds.
DependentKeys == {"topic", "subTopic"}

\* String(v) as Array.prototype.sort compares it: the UTF-16 code units of the
\* topic and sub-topic names of the banks.
CodeUnits(v) ==
    CASE v = "" -> << >>
      [] v = "Algebra" -> <<65, 108, 103, 101, 98, 114, 97>>
      [] v = "Ancient" -> <<65, 110, 99, 105, 101, 110, 116>>
      [] v = "Geometry" -> <<71, 101, 111, 109, 101, 116, 114, 121>>
      [] v = "Linear" -> <<76, 105, 110, 101, 97, 114>>
      [] v = "Maurya" -> <<77, 97, 117, 114, 121, 97>>
      [] v = "Physics" -> <<80, 104, 121, 115, 105, 99, 115>>

RECURSIVE LexLess(_, _)
\* The default comparison of sort(): s before t, code unit by code unit.
LexLess(s, t) ==
    IF t = << >> THEN FALSE
    ELSE IF s = << >> THEN TRUE
    ELSE IF s[1] # t[1] THEN s[1] < t[1]
    ELSE LexLess(Tail(s), Tail(t))

RECURSIVE SortDescending(_)
\* A sort() that puts the greatest value first.
SortDescending(S) ==
    IF S = {} THEN << >>
    ELSE LET m == CHOOSE x \in S :
                    \A y \in S \ {x} : LexLess(CodeUnits(y), CodeUnits(x))
         IN  <<m>> \o SortDescending(S \ {m})

RECURSIVE Sort(_)
\* Array.from(keys).sort() of distinct values.
Sort(S) ==
    IF S = {} THEN << >>
    ELSE LET m == CHOOSE x \in S :
                    \A y \in S \ {x} : LexLess(CodeUnits(x), CodeUnits(y))
         IN  <<m>> \o Sort(S \ {m})

(***************************************************************************)
(* State.                                                                  *)
(***************************************************************************)
VARIABLES
    store,                        \* db.questions: the Question Store
    dbVersion,                    \* localStorage 'databaseVersion'
    pc,                           \* where initFilterModule stands
    fetched,                      \* initDatabase called fetch('./questions.json')
    response,                     \* the records parsed from the fetched questions.json
    selectedFilters,              \* state.selectedFilters
    filteredQuestionsMasterList,  \* state.filteredQuestionsMasterList
    options,                      \* per key, the option values rendered (labels, buttons)
    checked,                      \* per list key, the values whose checkbox is checked
    listItems,                    \* topic and subTopic lists: the labels in document order
    optionCount,                  \* per key, the count shown beside each rendered option
    optionDisabled,               \* per key, the rendered options marked disabled
    segmentActive,                \* per segmented key, the buttons marked active
    toggleBtnDisabled,            \* topic and subTopic toggle buttons' disabled flag
    summaryChips,                 \* the chips of the active-filters summary bar
    summaryVisible,               \* the summary container is displayed
    questionCount,                \* dom.questionCount.textContent
    startQuizBtnDisabled,         \* dom.startQuizBtn.disabled
    errorOverlay,                 \* the loading overlay shows the database error
    swalWarning,                  \* the last handler fired a Swal warning
    quizStarted,                  \* the last handler called appCallbacks.startQuiz
    quizQuestions,                \* the list startQuiz was called with
    lastOp,                       \* the last handler that ran, with its arguments
    prevFilters,                  \* state.selectedFilters when that handler began
    pipelines,                    \* the onFilterStateChange runs suspended on a store query
    clicks,                       \* the clicks handled while runs were allowed to overlap
    calls                         \* what that handler did, in order: its writes to
                                  \* state.selectedFilters and the engine functions it called

persistent == <<store, dbVersion>>
session == <<selectedFilters, filteredQuestionsMasterList>>
view ==
    <<options, checked, listItems, optionCount, optionDisabled, segmentActive,
      toggleBtnDisabled, summaryChips, summaryVisible>>
counter == <<questionCount, startQuizBtnDisabled>>
signals == <<swalWarning, quizStarted, quizQuestions>>
history == <<lastOp, prevFilters, calls>>
vars ==
    <<store, dbVersion, pc, fetched, response, selectedFilters, filteredQuestionsMasterList,
      options, checked, listItems, optionCount, optionDisabled, segmentActive,
      toggleBtnDisabled, summaryChips, summaryVisible, questionCount,
      startQuizBtnDisabled, errorOverlay, swalWarning, quizStarted, quizQuestions,
      lastOp, prevFilters, calls, pipelines, clicks>>

Op(name, key, value) == [op |-> name, key |-> key, value |-> value]

NoCounts == [k \in KeySet |-> [v \in {} |-> 0]]

(***************************************************************************)
(* The filter engine.                                                      *)
(***************************************************************************)
\* populateMultiSelect: the list of `key` is rebuilt from `opts`; a checkbox is
\* checked when its value is selected.
PopulateMultiSelect(d, filters, key, opts) ==
    [d EXCEPT !.options[key] = opts,
              !.checked[key] = opts \cap filters[key]]

\* list.innerHTML = '' with the toggle button disabled.
ClearList(d, key) ==
    [d EXCEPT !.options[key] = {},
              !.checked[key] = {},
              !.listItems[key] = << >>,
              !.toggleBtnDisabled[key] = TRUE]

\* populateMultiSelect(key, Array.from(relevant).sort()) under an enabled toggle.
PopulateSorted(d, filters, key, relevant) ==
    PopulateMultiSelect(
        [d EXCEPT !.toggleBtnDisabled[key] = FALSE, !.listItems[key] = Sort(relevant)],
        filters, key, relevant)

\* updateDependentFilters, on d = [options, checked, listItems, toggleBtnDisabled].
UpdateDependentFilters(questions, filters, d) ==
    LET bySubject == AnyOf(questions, "subject", filters.subject)
        d1 == IF filters.subject = {}
              THEN ClearList(d, "topic")
              ELSE PopulateSorted(d, filters, "topic", {r.topic : r \in bySubject})
    IN  IF filters.topic = {}
        THEN ClearList(d1, "subTopic")
        ELSE PopulateSorted(d1, filters, "subTopic",
                 {r.subTopic : r \in {q \in bySubject : q.topic \in filters.topic}})

\* applyFilters that leaves out the where-clause of the tags index.
ApplyFiltersWithoutTags(questions, filters) == WhereAll(questions, filters, {"tags"})

\* applyFilters: one where/anyOf per key with a non-empty selection, then toArray.
ApplyFilters(questions, filters) == WhereAll(questions, filters, {})

\* updateAllFilterCountsAndAvailability, one key: the counts object built from
\* the base query of all other keys.
CountsFrom(baseQuery, key) ==
    [option \in {v \in UniqueKeys(baseQuery, key) : Truthy(key, v)} |->
        Cardinality(EqualTo(baseQuery, key,
            IF key = "examYear" THEN ParseInt(option) ELSE option))]

CountsOf(questions, filters, key) ==
    CountsFrom(WhereAll(questions, filters, {key}), key)

\* updateFilterUI, the count shown for one rendered option: counts[value] || 0.
ShownCount(counts, value) == IF value \in DOMAIN counts THEN counts[value] ELSE 0

\* updateFilterUI, list branch: disabled when the count is 0 and the box is unchecked.
DisabledOptions(opts, chk, counts) ==
    {v \in opts : ShownCount(counts, v) = 0 /\ v \notin chk}

\* updateFilterUI(filterKey, counts) on the rendered options and checkboxes of
\* one key: the counts shown, the options disabled, the segments active.
UpdateFilterUI(key, selected, opts, chk, counts) ==
    [optionCount |-> [v \in opts |-> ShownCount(counts, v)],
     optionDisabled |->
        IF key \in ListKeys THEN DisabledOptions(opts, chk, counts) ELSE {},
     segmentActive |-> opts \cap selected]

\* updateActiveFiltersSummaryBar: one chip per selected value.
Chips(filters) == UNION {{<<k, v>> : v \in filters[k]} : k \in KeySet}

TotalSelected(filters) ==
    LET RECURSIVE Sum(_)
        Sum(i) == IF i = 0 THEN 0 ELSE Sum(i - 1) + Cardinality(filters[FilterKeys[i]])
    IN  Sum(Len(FilterKeys))

\* updateAllFilterCountsAndAvailability: updateFilterUI for every key.
UpdateAllFilterCountsAndAvailability(questions, filters, d) ==
    {[optionCount |-> [k \in KeySet |-> ui[k].optionCount],
      optionDisabled |-> [k \in KeySet |-> ui[k].optionDisabled],
      segmentActive |-> [k \in SegmentedKeys |-> ui[k].segmentActive]] :
        ui \in {[k \in KeySet |->
                    UpdateFilterUI(k, filters[k], d.options[k], d.checked[k],
                                   CountsOf(questions, filters, k))]}}

\* onFilterStateChange: updateDependentFilters, applyFilters (with
\* updateQuestionCount), updateAllFilterCountsAndAvailability,
\* updateActiveFiltersSummaryBar.  d = [options, checked, listItems, toggleBtnDisabled] is the
\* DOM the handler finds; the result is everything the pipeline writes.
OnFilterStateChange(questions, filters, d) ==
    LET dep == UpdateDependentFilters(questions, filters, d)
        filtered == ApplyFilters(questions, filters)
        ui == CHOOSE u \in UpdateAllFilterCountsAndAvailability(questions, filters, dep) : TRUE
    IN  [options |-> dep.options,
         checked |-> dep.checked,
         listItems |-> dep.listItems,
         toggleBtnDisabled |-> dep.toggleBtnDisabled,
         list |-> filtered,
         questionCount |-> Cardinality(filtered),
         startQuizBtnDisabled |-> (Cardinality(filtered) = 0),
         optionCount |-> ui.optionCount,
         optionDisabled |-> ui.optionDisabled,
         segmentActive |-> ui.segmentActive,
         summaryChips |-> Chips(filters),
         summaryVisible |-> (TotalSelected(filters) > 0)]

\* An assignment to, or a push/splice on, state.selectedFilters.
Mutation == "selectedFilters"

\* onFilterStateChange: the four engine functions it awaits, in order.
Pipeline ==
    <<"updateDependentFilters", "applyFilters",
      "updateAllFilterCountsAndAvailability", "updateActiveFiltersSummaryBar">>

\* handleSelectionChange: the toggle, then onFilterStateChange.
HandleSelectionChangeCalls == <<Mutation>> \o Pipeline

\* resetFilters: the literal is assigned, then onFilterStateChange.
ResetFiltersCalls == <<Mutation>> \o Pipeline

\* handleQuickStart: resetFilters, the switch (no assignment for the mix preset),
\* applyFilters, then startFilteredQuiz, or resetFilters again on an empty sample.
HandleQuickStartCalls(preset, sample) ==
    ResetFiltersCalls
        \o (IF preset \in {"quick_25_easy", "quick_25_moderate", "quick_25_hard"}
            THEN <<Mutation>> ELSE << >>)
        \o <<"applyFilters">>
        \o (IF Cardinality(sample) = 0 THEN ResetFiltersCalls ELSE <<"startFilteredQuiz">>)

\* The DOM a handler finds.
Dom ==
    [options |-> options, checked |-> checked, listItems |-> listItems,
     toggleBtnDisabled |-> toggleBtnDisabled]

\* The pipeline's writes become the next state.
Render(p) ==
    /\ options' = p.options
    /\ checked' = p.checked
    /\ listItems' = p.listItems
    /\ toggleBtnDisabled' = p.toggleBtnDisabled
    /\ filteredQuestionsMasterList' = p.list
    /\ questionCount' = p.questionCount
    /\ startQuizBtnDisabled' = p.startQuizBtnDisabled
    /\ optionCount' = p.optionCount
    /\ optionDisabled' = p.optionDisabled
    /\ segmentActive' = p.segmentActive
    /\ summaryChips' = p.summaryChips
    /\ summaryVisible' = p.summaryVisible

\* handleSelectionChange without the block that clears the dependent selections.
HandleSelectionChangeNoCascade(filters, filterKey, value) ==
    [filters EXCEPT ![filterKey] =
        IF value \in @ THEN @ \ {value} ELSE @ \cup {value}]

\* handleSelectionChange whose push replaces the key's selection by the value.
HandleSelectionChangeSingle(filters, filterKey, value) ==
    LET toggled ==
            [filters EXCEPT ![filterKey] =
                IF value \in @ THEN @ \ {value} ELSE {value}]
    IN  IF filterKey = "subject"
        THEN [toggled EXCEPT !.topic = {}, !.subTopic = {}]
        ELSE IF filterKey = "topic"
             THEN [toggled EXCEPT !.subTopic = {}]
             ELSE toggled

\* handleSelectionChange, the state mutation: toggle value in key's selection, then
\* clear the dependent selections.
HandleSelectionChange(filters, filterKey, value) ==
    LET toggled ==
            [filters EXCEPT ![filterKey] =
                IF value \in @ THEN @ \ {value} ELSE @ \cup {value}]
    IN  IF filterKey = "subject"
        THEN [toggled EXCEPT !.topic = {}, !.subTopic = {}]
        ELSE IF filterKey = "topic"
             THEN [toggled EXCEPT !.subTopic = {}]
             ELSE toggled

\* resetFilters whose literal lacks the difficulty key.
ResetFiltersKeepDifficulty(filters) ==
    [EmptyFilters EXCEPT !.difficulty = filters.difficulty]

\* resetFilters that forgets the tags key.
ResetFiltersKeepTags(filters) == [EmptyFilters EXCEPT !.tags = filters.tags]

\* resetFilters, the state part: all eight selections become empty.
ResetFilters(filters) == EmptyFilters

\* resetFilters, the DOM part: every checkbox of every list is unchecked.
UncheckAll(d) == [d EXCEPT !.checked = [k \in KeySet |-> {}]]

\* startFilteredQuiz without the empty-list guard.
StartFilteredQuizUnguarded(list) == [swal |-> FALSE, started |-> TRUE]

\* startFilteredQuiz: a warning on an empty list, startQuiz otherwise.
StartFilteredQuiz(list) ==
    IF Cardinality(list) = 0
    THEN [swal |-> TRUE, started |-> FALSE]
    ELSE [swal |-> FALSE, started |-> TRUE]

\* handleQuickStart whose hard preset selects 'Medium'.
ApplyPresetHardAsMedium(filters, preset) ==
    CASE preset = "quick_25_easy" -> [filters EXCEPT !.difficulty = {"Easy"}]
      [] preset = "quick_25_moderate" -> [filters EXCEPT !.difficulty = {"Medium"}]
      [] preset = "quick_25_hard" -> [filters EXCEPT !.difficulty = {"Medium"}]
      [] OTHER -> filters

\* handleQuickStart, the switch: the difficulty a preset writes into the
\* selections the reset left.
ApplyPreset(filters, preset) ==
    CASE preset = "quick_25_easy" -> [filters EXCEPT !.difficulty = {"Easy"}]
      [] preset = "quick_25_moderate" -> [filters EXCEPT !.difficulty = {"Medium"}]
      [] preset = "quick_25_hard" -> [filters EXCEPT !.difficulty = {"Hard"}]
      [] OTHER -> filters

RECURSIVE SubsetsOfSize(_, _)
SubsetsOfSize(S, k) ==
    IF k = 0 THEN {{}}
    ELSE IF S = {} THEN {}
    ELSE LET x == CHOOSE y \in S : TRUE
         IN  SubsetsOfSize(S \ {x}, k) \cup {T \cup {x} : T \in SubsetsOfSize(S \ {x}, k - 1)}

\* shuffleArray(questions): any order of the list; the records slice(0, n) may keep.
ShuffleSlice(questions, n) ==
    IF Cardinality(questions) <= n
    THEN {questions}
    ELSE {questions \ dropped :
            dropped \in SubsetsOfSize(questions, Cardinality(questions) - n)}

(***************************************************************************)
(* Page load.                                                              *)
(***************************************************************************)
\* The module state and the DOM of a freshly loaded page.  The markup decides
\* whether the start button and the dependent toggles begin disabled.
FreshPage(startDisabled, togglesDisabled) ==
    [selectedFilters |-> EmptyFilters,
     list |-> {},
     options |-> [k \in KeySet |-> {}],
     checked |-> [k \in KeySet |-> {}],
     listItems |-> [k \in DependentKeys |-> << >>],
     toggleBtnDisabled |-> [k \in {"topic", "subTopic"} |-> togglesDisabled],
     optionCount |-> NoCounts,
     optionDisabled |-> [k \in KeySet |-> {}],
     segmentActive |-> [k \in SegmentedKeys |-> {}],
     startQuizBtnDisabled |-> startDisabled]

Init ==
    /\ \/ dbVersion = NoVersion /\ store = {}
       \/ dbVersion = OldVersion /\ store = Range(OldBank)
    /\ pc = "start"
    /\ fetched = FALSE
    /\ response = << >>
    /\ \E sd \in BOOLEAN, td \in BOOLEAN :
        LET page == FreshPage(sd, td)
        IN  /\ selectedFilters = page.selectedFilters
            /\ filteredQuestionsMasterList = page.list
            /\ options = page.options
            /\ checked = page.checked
            /\ listItems = page.listItems
            /\ toggleBtnDisabled = page.toggleBtnDisabled
            /\ optionCount = page.optionCount
            /\ optionDisabled = page.optionDisabled
            /\ segmentActive = page.segmentActive
            /\ startQuizBtnDisabled = page.startQuizBtnDisabled
    /\ summaryChips = {}
    /\ summaryVisible = FALSE
    /\ questionCount = 0
    /\ errorOverlay = FALSE
    /\ swalWarning = FALSE
    /\ quizStarted = FALSE
    /\ quizQuestions = {}
    /\ lastOp = Op("load", "", 0)
    /\ prevFilters = EmptyFilters
    /\ calls = << >>
    /\ pipelines = << >>
    /\ clicks = 0

\* The user reloads the page: the store and the version marker persist.
Reload ==
    /\ pc' = "start"
    /\ fetched' = FALSE
    /\ response' = << >>
    /\ \E sd \in BOOLEAN, td \in BOOLEAN :
        LET page == FreshPage(sd, td)
        IN  /\ selectedFilters' = page.selectedFilters
            /\ filteredQuestionsMasterList' = page.list
            /\ options' = page.options
            /\ checked' = page.checked
            /\ listItems' = page.listItems
            /\ toggleBtnDisabled' = page.toggleBtnDisabled
            /\ optionCount' = page.optionCount
            /\ optionDisabled' = page.optionDisabled
            /\ segmentActive' = page.segmentActive
            /\ startQuizBtnDisabled' = page.startQuizBtnDisabled
    /\ summaryChips' = {}
    /\ summaryVisible' = FALSE
    /\ questionCount' = 0
    /\ errorOverlay' = FALSE
    /\ swalWarning' = FALSE
    /\ quizStarted' = FALSE
    /\ quizQuestions' = {}
    /\ lastOp' = Op("load", "", 0)
    /\ prevFilters' = EmptyFilters
    /\ calls' = << >>
    /\ pipelines' = << >>
    /\ clicks' = 0
    /\ UNCHANGED persistent

(***************************************************************************)
(* initDatabase, as run by initFilterModule / initializeFilterDataSource.  *)
(***************************************************************************)
\* The up-to-date test with the count comparison inverted.
UpToDateWhenEmpty(version, questions) ==
    version = DB_VERSION /\ Cardinality(questions) = 0

\* currentVersion === DB_VERSION && (await db.questions.count()) > 0
UpToDate(version, questions) == version = DB_VERSION /\ Cardinality(questions) > 0

\* initDatabase without the clear of the old questions.
ClearStoreSkipped(questions) == questions

\* db.questions.clear()
ClearStore(questions) == {}

\* A catch block that shows the error and does not re-throw it.
InitFailsSwallowed ==
    /\ pc' = "populate"
    /\ errorOverlay' = TRUE

\* The catch block: the overlay shows the error, the error is re-thrown and
\* initFilterModule returns without populating anything.
InitFails ==
    /\ pc' = "failed"
    /\ errorOverlay' = TRUE

\* The version matches and the store has questions: return at once.
InitUpToDate ==
    /\ pc = "start"
    /\ UpToDate(dbVersion, store)
    /\ pc' = "populate"
    /\ lastOp' = Op("initDatabase", "upToDate", Cardinality(store))
    /\ UNCHANGED <<pipelines, clicks, persistent, fetched, response, session, view, counter,
                   errorOverlay, signals, prevFilters, calls>>

\* The version differs: the old questions are cleared (or clear() rejects).
InitClear ==
    /\ pc = "start"
    /\ ~UpToDate(dbVersion, store)
    /\ dbVersion # DB_VERSION
    /\ lastOp' = Op("initDatabase", "clear", Cardinality(store))
    /\ \/ /\ store' = ClearStore(store)
          /\ pc' = "fetch"
          /\ UNCHANGED errorOverlay
       \/ /\ InitFails
          /\ UNCHANGED store
    /\ UNCHANGED <<pipelines, clicks, dbVersion, fetched, response, session, view, counter, signals,
                   prevFilters, calls>>

\* The version matches but the store is empty: nothing is cleared.
InitSkipClear ==
    /\ pc = "start"
    /\ ~UpToDate(dbVersion, store)
    /\ dbVersion = DB_VERSION
    /\ pc' = "fetch"
    /\ lastOp' = Op("initDatabase", "noClear", Cardinality(store))
    /\ UNCHANGED <<pipelines, clicks, persistent, fetched, response, session, view, counter,
                   errorOverlay, signals, prevFilters, calls>>

\* fetch('./questions.json'), read whole or in chunks, and parsed.
InitFetch ==
    /\ pc = "fetch"
    /\ fetched' = TRUE
    /\ \/ \E bank \in Banks :
            /\ response' = bank
            /\ pc' = "insert"
            /\ UNCHANGED errorOverlay
       \/ /\ InitFails
          /\ UNCHANGED response
    /\ UNCHANGED <<pipelines, clicks, persistent, session, view, counter, signals, history>>

Ids(questions) == {r.id : r \in questions}

\* bulkAdd(allQuestions): the records added, in order, until the primary key
\* of one is already present.
FirstOfEachId(records, present) ==
    {records[i] : i \in {j \in 1..Len(records) :
        /\ records[j].id \notin present
        /\ \A h \in 1..(j - 1) : records[h].id # records[j].id}}

BulkAddFails(records, questions) ==
    FirstOfEachId(records, Ids(questions)) # Range(records)

\* bulkAdd succeeds and the version marker is written, or it rejects with a
\* BulkError: the adds that succeeded are kept or rolled back with the transaction.
InitBulkAdd ==
    /\ pc = "insert"
    /\ IF BulkAddFails(response, store)
       THEN /\ store' \in {store, store \cup FirstOfEachId(response, Ids(store))}
            /\ InitFails
            /\ UNCHANGED dbVersion
       ELSE /\ store' = store \cup Range(response)
            /\ dbVersion' = DB_VERSION
            /\ pc' = "populate"
            /\ UNCHANGED errorOverlay
    /\ UNCHANGED <<pipelines, clicks, fetched, response, session, view, counter, signals, history>>

\* populateFilterControls: the independent lists and segmented controls are
\* filled from the store, the dependent toggles are disabled.
PopulateFilterControls(questions, filters, d) ==
    LET independent == KeySet \ {"topic", "subTopic"}
    IN  [options |->
            [k \in KeySet |->
                IF k \in independent THEN UniqueKeys(questions, k) ELSE d.options[k]],
         checked |->
            [k \in KeySet |->
                IF k \in independent \cap ListKeys
                THEN UniqueKeys(questions, k) \cap filters[k]
                ELSE d.checked[k]],
         listItems |-> d.listItems,
         toggleBtnDisabled |-> [k \in {"topic", "subTopic"} |-> TRUE]]

\* initializeFilterDataSource after initDatabase: populateFilterControls, then
\* onFilterStateChange.
InitPopulate ==
    /\ pc = "populate"
    /\ pc' = "ready"
    /\ \E p \in {OnFilterStateChange(store, selectedFilters,
                    PopulateFilterControls(store, selectedFilters, Dom))} : Render(p)
    /\ calls' = Pipeline
    /\ UNCHANGED <<pipelines, clicks, persistent, fetched, response, selectedFilters, errorOverlay,
                   signals, lastOp, prevFilters>>

(***************************************************************************)
(* User actions.  Each runs its handler to completion.                     *)
(***************************************************************************)
\* The bound of the model: the values selected or checked, outside the topic
\* and sub-topic lists, are at most MaxSelected.
MaySelect(filters, chk) ==
    TotalSelected([k \in KeySet |->
        IF k \in {"topic", "subTopic"} THEN {} ELSE filters[k] \cup chk[k]])
        <= MaxSelected

NoSignal ==
    /\ swalWarning' = FALSE
    /\ quizStarted' = FALSE
    /\ quizQuestions' = {}

\* handleSelectionChange(filterKey, value) on the DOM d the event left.
SelectionChange(filterKey, value, d) ==
    LET filters == HandleSelectionChange(selectedFilters, filterKey, value)
    IN  /\ MaySelect(filters, d.checked)
        /\ selectedFilters' = filters
        /\ \E p \in {OnFilterStateChange(store, filters, d)} : Render(p)
        /\ prevFilters' = selectedFilters
        /\ calls' = HandleSelectionChangeCalls
        /\ NoSignal
        /\ pc' = "handled"
        /\ UNCHANGED <<pipelines, clicks, persistent, fetched, response, errorOverlay>>

\* checkbox.onchange: the browser has flipped the box, then the handler runs.
CheckboxClick ==
    /\ pc = "ready"
    /\ \E key \in ListKeys : \E value \in options[key] \ optionDisabled[key] :
        /\ SelectionChange(key, value,
               [Dom EXCEPT !.checked[key] =
                    IF value \in @ THEN @ \ {value} ELSE @ \cup {value}])
        /\ lastOp' = Op("checkbox", key, value)

\* A segmented button's onclick.
SegmentClick ==
    /\ pc = "ready"
    /\ \E key \in SegmentedKeys : \E value \in options[key] :
        /\ SelectionChange(key, value, Dom)
        /\ lastOp' = Op("segment", key, value)

\* A summary chip's close button.
ChipClick ==
    /\ pc = "ready"
    /\ \E chip \in summaryChips :
        /\ SelectionChange(chip[1], chip[2], Dom)
        /\ lastOp' = Op("chip", chip[1], chip[2])

\* resetFilters
ResetClick ==
    /\ pc = "ready"
    /\ \E filters \in {ResetFilters(selectedFilters)} :
        /\ selectedFilters' = filters
        /\ \E p \in {OnFilterStateChange(store, filters, UncheckAll(Dom))} : Render(p)
    /\ lastOp' = Op("reset", "", 0)
    /\ prevFilters' = selectedFilters
    /\ calls' = ResetFiltersCalls
    /\ NoSignal
    /\ pc' = "handled"
    /\ UNCHANGED <<pipelines, clicks, persistent, fetched, response, errorOverlay>>

\* handleQuickStart without the updateQuestionCount after the slice.
HandleQuickStartStaleCount(questions, afterReset, filters, sample) ==
    IF Cardinality(sample) = 0
    THEN \* the warning, then resetFilters once more
         [filters |-> ResetFilters(filters),
          page |-> OnFilterStateChange(questions, ResetFilters(filters),
                      UncheckAll([options |-> afterReset.options,
                                  checked |-> afterReset.checked,
                                  listItems |-> afterReset.listItems,
                                  toggleBtnDisabled |-> afterReset.toggleBtnDisabled])),
          swal |-> TRUE,
          started |-> FALSE]
    ELSE \* the sample replaces the list, startFilteredQuiz
         [filters |-> filters,
          page |-> [afterReset EXCEPT !.list = sample],
          swal |-> StartFilteredQuiz(sample).swal,
          started |-> StartFilteredQuiz(sample).started]

\* handleQuickStart(preset) from the point where shuffleArray and slice have left
\* `sample` of the questions matching `filters`, the selections with the preset
\* applied: the selections, the page and the signals the handler ends with.
\* afterReset is what the first resetFilters rendered.
HandleQuickStart(questions, afterReset, filters, sample) ==
    IF Cardinality(sample) = 0
    THEN \* the warning, then resetFilters once more
         [filters |-> ResetFilters(filters),
          page |-> OnFilterStateChange(questions, ResetFilters(filters),
                      UncheckAll([options |-> afterReset.options,
                                  checked |-> afterReset.checked,
                                  listItems |-> afterReset.listItems,
                                  toggleBtnDisabled |-> afterReset.toggleBtnDisabled])),
          swal |-> TRUE,
          started |-> FALSE]
    ELSE \* the sample replaces the list, updateQuestionCount, startFilteredQuiz
         [filters |-> filters,
          page |-> [afterReset EXCEPT
                        !.list = sample,
                        !.questionCount = Cardinality(sample),
                        !.startQuizBtnDisabled = (Cardinality(sample) = 0)],
          swal |-> StartFilteredQuiz(sample).swal,
          started |-> StartFilteredQuiz(sample).started]

QuickStartClick ==
    /\ pc = "ready"
    /\ \E afterReset \in {OnFilterStateChange(store, ResetFilters(selectedFilters),
                                              UncheckAll(Dom))} :
       \E preset \in Presets :
       \E filters \in {ApplyPreset(ResetFilters(selectedFilters), preset)} :
       \E sample \in ShuffleSlice(ApplyFilters(store, filters), SampleSize) :
       \E end \in {HandleQuickStart(store, afterReset, filters, sample)} :
            /\ lastOp' = Op("quickStart", preset, 0)
            /\ calls' = HandleQuickStartCalls(preset, sample)
            /\ selectedFilters' = end.filters
            /\ Render(end.page)
            /\ swalWarning' = end.swal
            /\ quizStarted' = end.started
            /\ quizQuestions' = IF end.started THEN end.page.list ELSE {}
    /\ prevFilters' = selectedFilters
    /\ pc' = "handled"
    /\ UNCHANGED <<pipelines, clicks, persistent, fetched, response, errorOverlay>>

\* dom.startQuizBtn.onclick, bound before the database is initialised.
StartClick ==
    /\ pc \in {"populate", "ready"}
    /\ ~startQuizBtnDisabled
    /\ swalWarning' = StartFilteredQuiz(filteredQuestionsMasterList).swal
    /\ quizStarted' = StartFilteredQuiz(filteredQuestionsMasterList).started
    /\ quizQuestions' =
          IF StartFilteredQuiz(filteredQuestionsMasterList).started
          THEN filteredQuestionsMasterList ELSE {}
    /\ lastOp' = Op("start", pc, 0)
    /\ prevFilters' = selectedFilters
    /\ calls' = <<"startFilteredQuiz">>
    /\ pc' = "handled"
    /\ UNCHANGED <<pipelines, clicks, persistent, fetched, response, session, view, counter,
                   errorOverlay>>

\* The handler has returned.  The user dismisses what it showed (the warning, or
\* the quiz, by appCallbacks.confirmGoBackToFilters) and the filter view waits for
\* the next event; initializeFilterDataSource resumes if the click interrupted it.
Continue ==
    /\ pc = "handled"
    /\ pc' = IF lastOp.op = "start" THEN lastOp.key ELSE "ready"
    /\ NoSignal
    /\ lastOp' = Op("idle", "", 0)
    /\ prevFilters' = EmptyFilters
    /\ calls' = << >>
    /\ UNCHANGED <<pipelines, clicks, persistent, fetched, response, session, view, counter,
                   errorOverlay>>

Next ==
    \/ InitUpToDate
    \/ InitClear
    \/ InitSkipClear
    \/ InitFetch
    \/ InitBulkAdd
    \/ InitPopulate
    \/ CheckboxClick
    \/ SegmentClick
    \/ ChipClick
    \/ ResetClick
    \/ QuickStartClick
    \/ StartClick
    \/ Continue
    \/ Reload

Spec == Init /\ [][Next]_vars

(***************************************************************************)
(* Vocabulary of the properties.                                           *)
(***************************************************************************)
ToggleOps == {"checkbox", "segment", "chip"}

\* Record r meets the membership constraint of key k: its field is one of the
\* selected values (one of its tags is), or nothing is selected for k.
Satisfies(r, k, filters) ==
    \/ filters[k] = {}
    \/ IF k = "tags" THEN r.tags \cap filters[k] # {} ELSE r[k] \in filters[k]

\* The records of the store meeting the constraint of every key not in skip.
Matching(filters, skip) ==
    {r \in store : \A k \in KeySet \ skip : Satisfies(r, k, filters)}

\* The filter pipeline has run at least once since the page was loaded.
Populated == pc = "ready" \/ (pc = "handled" /\ lastOp # Op("start", "populate", 0))

\* A handler of the given kinds has just returned.
Handled(ops) == pc = "handled" /\ lastOp.op \in ops

Min(a, b) == IF a <= b THEN a ELSE b

(***************************************************************************)
(* C1.  The Filtered Master List against the Filter State.                 *)
(***************************************************************************)
\* C1 as stated: in every state reached by completed toggle, reset and quick-start
\* operations the Filtered Master List is exactly the set of stored records that
\* meet the membership constraint of every key with a non-empty selection.
C1_ListIsExactlyTheMatchingRecords ==
    Populated => filteredQuestionsMasterList = Matching(selectedFilters, {})

\* C1 amended: the list never holds a record that fails a constraint; after a
\* toggle, a chip removal, a reset, the initial population and a quick start that
\* found nothing it is exactly the matching set; after a quick start that started
\* the quiz it is a sample of min(25, number of matching records) of them.
C1_ListMatchesOrIsASampleOfTheMatching ==
    Populated =>
        LET matching == Matching(selectedFilters, {})
            list == filteredQuestionsMasterList
        IN  /\ list \subseteq matching
            /\ Cardinality(list) >= Min(SampleSize, Cardinality(matching))
            /\ Handled(ToggleOps \cup {"reset"}) => list = matching
            /\ pc = "ready" /\ lastOp.op = "initDatabase" => list = matching
            /\ Handled({"quickStart"}) /\ ~quizStarted => list = matching
            /\ Handled({"quickStart"}) /\ quizStarted =>
                   Cardinality(list) = Min(SampleSize, Cardinality(matching))

\* C1 witness: a quick start has just cut the matching records down to the sample.
C1_QuickStartTruncated ==
    /\ Handled({"quickStart"})
    /\ quizStarted
    /\ Cardinality(filteredQuestionsMasterList) = SampleSize
    /\ filteredQuestionsMasterList # Matching(selectedFilters, {})

(***************************************************************************)
(* C2.  Cascade.                                                           *)
(***************************************************************************)
\* C2: every toggle of a subject value leaves the topic and subTopic selections
\* empty, and every toggle of a topic value leaves the subTopic selection empty.
C2_Cascade ==
    Handled(ToggleOps) =>
        /\ lastOp.key = "subject" =>
              selectedFilters.topic = {} /\ selectedFilters.subTopic = {}
        /\ lastOp.key = "topic" => selectedFilters.subTopic = {}

\* C2 witness: with a topic and a sub-topic selected under the only selected
\* subject, that subject has just been deselected.
C2_LastSubjectDeselected ==
    /\ Handled(ToggleOps)
    /\ lastOp.key = "subject"
    /\ prevFilters.subject = {lastOp.value}
    /\ prevFilters.topic # {}
    /\ prevFilters.subTopic # {}
    /\ selectedFilters.subject = {}

(***************************************************************************)
(* C3.  Displayed option counts.                                           *)
(***************************************************************************)
\* C3 as stated: after any sequence of completed operations, the count displayed
\* for option v of key K is the number of stored records that meet the current
\* constraints of every key other than K and whose K-field equals (for tags:
\* contains) v.
C3_DisplayedCountsAreCurrent ==
    Populated =>
        \A K \in KeySet : \A v \in options[K] :
            optionCount[K][v] =
                Cardinality({r \in Matching(selectedFilters, {K}) : v \in KeysOf(r, K)})

(***************************************************************************)
(* C4.  Quick start, hard preset.                                          *)
(***************************************************************************)
HardQuestions == {r \in store : r.difficulty = "Hard"}

\* C4: quick start with 'quick_25_hard' on a store with at least one Hard record
\* ends with a non-empty list of min(25, number of Hard records) records, all of
\* difficulty Hard, and startQuiz is called with that list.
C4_HardQuickStart ==
    Handled({"quickStart"}) /\ lastOp.key = "quick_25_hard" /\ HardQuestions # {} =>
        /\ filteredQuestionsMasterList # {}
        /\ filteredQuestionsMasterList \subseteq HardQuestions
        /\ Cardinality(filteredQuestionsMasterList) =
              Min(25, Cardinality(HardQuestions))
        /\ quizStarted
        /\ quizQuestions = filteredQuestionsMasterList

\* C4 witness: the hard preset has run, from a non-empty Filter State, on a store
\* with more than 25 Hard records.
C4_HardQuickStartOnBigStore ==
    /\ Handled({"quickStart"})
    /\ lastOp.key = "quick_25_hard"
    /\ Cardinality(HardQuestions) > 25
    /\ prevFilters # EmptyFilters

(***************************************************************************)
(* C5.  Quick start that finds nothing.                                    *)
(***************************************************************************)
\* The stored records a preset asks for.
PresetQuestions(preset) ==
    CASE preset = "quick_25_easy" -> {r \in store : r.difficulty = "Easy"}
      [] preset = "quick_25_moderate" -> {r \in store : r.difficulty = "Medium"}
      [] preset = "quick_25_hard" -> HardQuestions
      [] OTHER -> store

\* C5: quick start on a store with no record matching the preset ends with all 8
\* selections empty, a warning shown and no quiz start.
C5_EmptyQuickStart ==
    Handled({"quickStart"}) /\ PresetQuestions(lastOp.key) = {} =>
        /\ \A k \in KeySet : selectedFilters[k] = {}
        /\ swalWarning
        /\ ~quizStarted

\* C5 witness: a difficulty preset has found nothing in a non-empty store, starting
\* from a non-empty Filter State.
C5_PresetFoundNothing ==
    /\ Handled({"quickStart"})
    /\ lastOp.key # "quick_25_mix"
    /\ PresetQuestions(lastOp.key) = {}
    /\ store # {}
    /\ prevFilters # EmptyFilters

(***************************************************************************)
(* C6.  initDatabase on a version marker that differs.                     *)
(***************************************************************************)
\* initDatabase found a marker other than DB_VERSION and went on to clear().
ClearedRun == lastOp.op = "initDatabase" /\ lastOp.key = "clear"

\* C6: when the stored version marker differs from the required version (or is
\* absent), initDatabase has emptied the store before any fetched record is
\* inserted, and after a successful run the store holds exactly the fetched
\* records, none of the older version, under the required marker.
C6_ClearBeforeInsert ==
    ClearedRun =>
        /\ pc \in {"fetch", "insert"} => store = {}
        /\ pc = "populate" =>
              /\ fetched
              /\ store = Range(response)
              /\ store \cap Range(OldBank) = {}
              /\ dbVersion = DB_VERSION

\* C6 witness: a run that found the old marker and one old record has ended
\* successfully with the three fetched records.
C6_OldStoreReplaced ==
    /\ pc = "populate"
    /\ lastOp = Op("initDatabase", "clear", 1)
    /\ store = Range(SmallBank)

(***************************************************************************)
(* C7.  initDatabase on an up-to-date store.                               *)
(***************************************************************************)
\* C7: when the stored marker equals the required version and the store is
\* non-empty, initDatabase performs no fetch and leaves the store contents and
\* the version marker as they were.
C7_UpToDateIsLeftAlone ==
    /\ [](lastOp.op = "initDatabase" /\ lastOp.key = "upToDate" /\ pc = "populate" =>
            /\ ~fetched
            /\ dbVersion = DB_VERSION
            /\ Cardinality(store) = lastOp.value
            /\ store # {})
    /\ [][pc = "start" /\ dbVersion = DB_VERSION /\ store # {} =>
            /\ pc' \in {"start", "populate"}
            /\ ~fetched'
            /\ UNCHANGED <<store, dbVersion>>]_vars

\* C7 witness: initDatabase has just returned at once on a store that already
\* held the questions of the required version.
C7_ReturnedAtOnce ==
    /\ pc = "populate"
    /\ lastOp.op = "initDatabase"
    /\ lastOp.key = "upToDate"
    /\ store # {}
    /\ ~fetched

(***************************************************************************)
(* C8.  startFilteredQuiz.                                                 *)
(***************************************************************************)
\* C8: startFilteredQuiz never signals quiz start on an empty Filtered Master
\* List.  On an empty list it shows a warning and changes neither the Filter
\* State nor the list; otherwise it signals quiz start with the list.  The same
\* holds when quick start invokes it.
C8_NoStartOnEmptyList ==
    /\ [](/\ quizStarted =>
               /\ filteredQuestionsMasterList # {}
               /\ quizQuestions = filteredQuestionsMasterList
          /\ Handled({"start"}) =>
               /\ selectedFilters = prevFilters
               /\ IF filteredQuestionsMasterList = {}
                  THEN swalWarning /\ ~quizStarted
                  ELSE quizStarted /\ ~swalWarning)
    /\ [][pc' = "handled" /\ lastOp'.op = "start" /\ pc # "handled" =>
            UNCHANGED <<selectedFilters, filteredQuestionsMasterList>>]_vars

\* C8 witness: the start button was clicked while the list was empty, and the
\* warning is showing.
C8_StartClickedOnEmptyList ==
    /\ Handled({"start"})
    /\ filteredQuestionsMasterList = {}
    /\ swalWarning
    /\ ~quizStarted

(***************************************************************************)
(* C9.  The frame of a toggle.                                             *)
(***************************************************************************)
CascadeTargets(key) ==
    CASE key = "subject" -> {"topic", "subTopic"}
      [] key = "topic" -> {"subTopic"}
      [] OTHER -> {}

\* C9: a toggle of (key, value) flips the membership of that value in key's
\* selection, leaves every other value of that selection as it was, and leaves
\* the selection of every other key as it was, the cascade targets excepted.
C9_ToggleFrame ==
    Handled(ToggleOps) =>
        /\ (lastOp.value \in selectedFilters[lastOp.key])
              <=> (lastOp.value \notin prevFilters[lastOp.key])
        /\ selectedFilters[lastOp.key] \ {lastOp.value}
              = prevFilters[lastOp.key] \ {lastOp.value}
        /\ \A k \in KeySet \ ({lastOp.key} \cup CascadeTargets(lastOp.key)) :
              selectedFilters[k] = prevFilters[k]

\* C9 witness: a second value has just been added to a selection while another
\* key had a selection too.
C9_SecondValueSelected ==
    /\ Handled(ToggleOps)
    /\ lastOp.value \notin prevFilters[lastOp.key]
    /\ prevFilters[lastOp.key] # {}
    /\ \E k \in KeySet \ ({lastOp.key} \cup CascadeTargets(lastOp.key)) :
          prevFilters[k] # {}

(***************************************************************************)
(* C10.  Reset.                                                            *)
(***************************************************************************)
\* C10: after a reset has run to completion, all 8 selections are empty and the
\* Filtered Master List is the full contents of the Question Store.
C10_Reset ==
    Handled({"reset"}) =>
        /\ \A k \in KeySet : selectedFilters[k] = {}
        /\ filteredQuestionsMasterList = store

\* C10 witness: a reset has run from a Filter State with a tag selected that
\* not every stored record carried.
C10_ResetFromNarrowedList ==
    /\ Handled({"reset"})
    /\ prevFilters.tags # {}
    /\ Matching(prevFilters, {}) # store
    /\ store # {}

(***************************************************************************)
(* C11.  The dependent option lists.                                       *)
(***************************************************************************)
\* The labels of a list stand in ascending order of their names.
Ascending(items) ==
    \A i \in 1..Len(items) : \A j \in (i + 1)..Len(items) :
        LexLess(CodeUnits(items[i]), CodeUnits(items[j]))

\* The list of a dependent key shows exactly the values `relevant`, each once,
\* in ascending order, under an enabled toggle.
ShowsSorted(key, relevant) ==
    /\ ~toggleBtnDisabled[key]
    /\ options[key] = relevant
    /\ Range(listItems[key]) = relevant
    /\ Len(listItems[key]) = Cardinality(relevant)
    /\ Ascending(listItems[key])

\* The control of a dependent key is disabled and its list is empty.
ShowsNothing(key) ==
    toggleBtnDisabled[key] /\ options[key] = {} /\ listItems[key] = << >>

\* C11: after any completed toggle or reset the topic control is disabled with an
\* empty list iff no subject is selected, and otherwise lists exactly the distinct
\* topics of the records of the selected subjects, ascending; the subTopic control
\* is disabled with an empty list iff no topic is selected, and otherwise lists
\* exactly the distinct sub-topics of the records of the selected subjects and
\* topics.
C11_DependentLists ==
    Handled(ToggleOps \cup {"reset"}) =>
        LET bySubject == {r \in store : r.subject \in selectedFilters.subject}
            byTopic == {r \in bySubject : r.topic \in selectedFilters.topic}
        IN  /\ ShowsNothing("topic") <=> selectedFilters.subject = {}
            /\ selectedFilters.subject # {} =>
                  ShowsSorted("topic", {r.topic : r \in bySubject})
            /\ ShowsNothing("subTopic") <=> selectedFilters.topic = {}
            /\ selectedFilters.topic # {} =>
                  ShowsSorted("subTopic", {r.subTopic : r \in byTopic})

\* C11 witness: a toggle has left two topics and two sub-topics listed.
C11_TwoTopicsTwoSubTopics ==
    /\ Handled(ToggleOps)
    /\ Len(listItems.topic) = 2
    /\ Len(listItems.subTopic) = 2
    /\ Cardinality(selectedFilters.topic) = 2

(***************************************************************************)
(* C12.  Unavailable options.                                              *)
(***************************************************************************)
\* C12 as stated: after every recompute of the option counts, for each of the 8
\* keys, the segmented ones included, a displayed option is marked unavailable
\* iff its count is 0 and it is not currently selected.  (Marked options stay in
\* the option list: optionDisabled is a subset of the displayed options.)
C12_UnavailableIffZeroAndUnselected ==
    Handled(ToggleOps \cup {"reset"}) =>
        \A K \in KeySet :
            /\ optionDisabled[K] \subseteq options[K]
            /\ \A v \in options[K] :
                  v \in optionDisabled[K]
                      <=> (optionCount[K][v] = 0 /\ v \notin selectedFilters[K])

(***************************************************************************)
(* C13.  The pipeline after a mutation.                                    *)
(***************************************************************************)
\* C13 as stated: every Filter State mutation (a toggle, a reset, the preset
\* constraint quick start applies) is followed by the four engine operations in
\* the fixed order: dependent options, apply filters, option counts, summary.
C13_WholePipelineAfterEveryMutation ==
    \A i \in 1..Len(calls) :
        calls[i] = Mutation =>
            /\ i + Len(Pipeline) <= Len(calls)
            /\ SubSeq(calls, i + 1, i + Len(Pipeline)) = Pipeline

(***************************************************************************)
(* C14.  The summary bar.                                                  *)
(***************************************************************************)
\* C14 as stated: after any sequence of completed operations (toggle, chip
\* removal, reset, quick start) the summary bar holds exactly one chip per
\* selected value of the 8 keys, as many chips as the selections hold values, and
\* its container is visible iff some selection is non-empty.
C14_SummaryBarShowsTheSelections ==
    Populated =>
        /\ summaryChips = Chips(selectedFilters)
        /\ Cardinality(summaryChips) = TotalSelected(selectedFilters)
        /\ summaryVisible <=> (\E k \in KeySet : selectedFilters[k] # {})

(***************************************************************************)
(* C15.  The result count and the start button.                            *)
(***************************************************************************)
\* C15: after every write to the Filtered Master List, by applyFilters or by the
\* quick-start truncation, the visible result count is the length of the list and
\* the start button is disabled iff the list is empty.
C15_CountAndStartButtonFollowTheList ==
    Populated =>
        /\ questionCount = Cardinality(filteredQuestionsMasterList)
        /\ startQuizBtnDisabled <=> (filteredQuestionsMasterList = {})

\* C15 witness: the quick-start truncation has just cut a longer result down to
\* the sample, and the count shows the sample's length.
C15_CountAfterTruncation ==
    /\ Handled({"quickStart"})
    /\ Cardinality(ApplyFilters(store, selectedFilters)) > SampleSize
    /\ questionCount = SampleSize
    /\ ~startQuizBtnDisabled

(***************************************************************************)
(* C16.  A failed load.                                                    *)
(***************************************************************************)
\* Nothing of the filter view has been populated and no engine function has run.
NothingPopulated ==
    /\ selectedFilters = EmptyFilters
    /\ filteredQuestionsMasterList = {}
    /\ \A k \in KeySet : options[k] = {}
    /\ optionCount = NoCounts
    /\ summaryChips = {}
    /\ calls = << >>

\* C16: when the fetch, the parse or the bulk insert of initDatabase fails, the
\* error is shown and startup stops (the error is re-thrown and initFilterModule
\* returns): no filter control is populated and no step of the pipeline runs, the
\* failing run does not write the version marker, and nothing retries the load.
C16_FailedLoadAbortsStartup ==
    /\ [](pc = "failed" =>
            /\ errorOverlay
            /\ NothingPopulated
            /\ ClearedRun => dbVersion # DB_VERSION)
    /\ [][/\ pc = "insert" /\ BulkAddFails(response, store) => pc' \in {"failed", "start"}
          /\ pc \in {"fetch", "insert"} /\ pc' = "failed" => dbVersion' = dbVersion
          /\ pc = "failed" =>
                /\ pc' \in {"failed", "start"}
                /\ UNCHANGED <<store, dbVersion>>
                /\ pc' = "failed" => UNCHANGED <<fetched, response>>]_vars

\* C16 witness: the bulk insert of a fetched file has failed after some of its
\* records were added, and startup has stopped on the error.
C16_BulkInsertFailed ==
    /\ pc = "failed"
    /\ fetched
    /\ response = DupBank
    /\ store # {}
    /\ errorOverlay

(***************************************************************************)
(* C20.  Checkboxes against the Filter State.                              *)
(***************************************************************************)
\* C20 as stated: after any sequence of completed checkbox toggles, summary-chip
\* removals and resets, for every multi-select key and every displayed option,
\* the option's checkbox is checked iff the value is in that key's selection; so
\* removing a value through its chip leaves its checkbox unchecked.
C20_CheckboxesShowTheSelections ==
    Handled(ToggleOps \cup {"reset"}) =>
        \A k \in ListKeys : \A v \in options[k] :
            v \in checked[k] <=> v \in selectedFilters[k]

(***************************************************************************)
(* Overlapping handlers.                                                   *)
(*                                                                         *)
(* The handlers are async functions and nothing disables the controls      *)
(* while one runs: between the issue of a store query and its result the   *)
(* browser dispatches further clicks.  Here a handler runs from its click, *)
(* or from the result of the query it awaits, to its next store query; the *)
(* awaits that no store query stands behind resume in the same task.  The   *)
(* results of the pending queries arrive in any order.  The uniqueKeys and  *)
(* the Promise.all of one key's counts read one base query and are one     *)
(* suspension.                                                             *)
(***************************************************************************)
\* The onFilterStateChange runs the user has in flight at a time.
MaxInFlight == 2

\* The clicks of one session.
MaxClicks == 4

\* The controls the user of that session clicks: the cascade and one segmented
\* control.
ClickedKeys == {"subject", "topic", "difficulty"}

\* updateDependentFilters holds the arrays state.selectedFilters.subject and
\* .topic had when it began.  Such an array is live while the state still holds
\* it (push and splice show through); once the state is assigned a new array
\* it keeps the content it had.
Live == [live |-> TRUE, val |-> {}]

Frozen(content) == [live |-> FALSE, val |-> content]

Deref(ref, current) == IF ref.live THEN current ELSE ref.val

\* A run suspended at `at` on a store query built from the selections `query`;
\* key is the index of the key being counted.
Suspended(at, key, query, subjects, topics) ==
    [at |-> at, key |-> key, query |-> query, subjects |-> subjects, topics |-> topics]

\* applyFilters up to `await query.toArray()`.
IssueApply(filters) == Suspended("apply", 0, filters, Live, Live)

\* updateAllFilterCountsAndAvailability up to the awaits of the i-th key.
IssueCounts(filters, i) == Suspended("counts", i, filters, Live, Live)

\* updateDependentFilters from its second if, then applyFilters, up to the next
\* store query.  subjects and topics are the arrays held since the function began.
SubTopicStep(filters, d, subjects, topics) ==
    IF Deref(topics, filters.topic) = {}
    THEN [dom |-> ClearList(d, "subTopic"), pipe |-> IssueApply(filters)]
    ELSE [dom |-> [d EXCEPT !.toggleBtnDisabled["subTopic"] = FALSE],
          pipe |-> Suspended("subTopics", 0,
                       [EmptyFilters EXCEPT !.subject = Deref(subjects, filters.subject),
                                            !.topic = Deref(topics, filters.topic)],
                       Live, Live)]

\* onFilterStateChange from its start up to the first store query.
TopicStep(filters, d) ==
    IF filters.subject = {}
    THEN SubTopicStep(filters, ClearList(d, "topic"), Live, Live)
    ELSE [dom |-> [d EXCEPT !.toggleBtnDisabled["topic"] = FALSE],
          pipe |-> Suspended("topics", 0,
                       [EmptyFilters EXCEPT !.subject = filters.subject], Live, Live)]

\* state.selectedFilters.topic = []: the runs that hold the old array keep its content.
FreezeTopics(ps, topicsBefore) ==
    [i \in 1..Len(ps) |->
        IF ps[i].at = "topics" /\ ps[i].topics.live
        THEN [ps[i] EXCEPT !.topics = Frozen(topicsBefore)]
        ELSE ps[i]]

\* state.selectedFilters = {...}: the same for the subject array.
FreezeSubjects(ps, subjectsBefore) ==
    [i \in 1..Len(ps) |->
        IF ps[i].at = "topics" /\ ps[i].subjects.live
        THEN [ps[i] EXCEPT !.subjects = Frozen(subjectsBefore)]
        ELSE ps[i]]

\* The arrays a toggle of filterKey replaces.
FreezeOnToggle(ps, filterKey, filters) ==
    IF filterKey = "subject" THEN FreezeTopics(ps, filters.topic) ELSE ps

Remove(seq, i) == SubSeq(seq, 1, i - 1) \o SubSeq(seq, i + 1, Len(seq))

\* What a step leaves of the lists and toggles.
RenderLists(d) ==
    /\ options' = d.options
    /\ checked' = d.checked
    /\ listItems' = d.listItems
    /\ toggleBtnDisabled' = d.toggleBtnDisabled

\* The page after a load on an up-to-date store that holds CascadeBank.
InitAsync ==
    LET questions == Range(CascadeBank)
        fresh == FreshPage(TRUE, TRUE)
        page == OnFilterStateChange(questions, EmptyFilters,
                    PopulateFilterControls(questions, EmptyFilters,
                        [options |-> fresh.options, checked |-> fresh.checked,
                         listItems |-> fresh.listItems,
                         toggleBtnDisabled |-> fresh.toggleBtnDisabled]))
    IN  /\ store = questions
        /\ dbVersion = DB_VERSION
        /\ pc = "ready"
        /\ fetched = FALSE
        /\ response = << >>
        /\ selectedFilters = EmptyFilters
        /\ filteredQuestionsMasterList = page.list
        /\ options = page.options
        /\ checked = page.checked
        /\ listItems = page.listItems
        /\ toggleBtnDisabled = page.toggleBtnDisabled
        /\ optionCount = page.optionCount
        /\ optionDisabled = page.optionDisabled
        /\ segmentActive = page.segmentActive
        /\ summaryChips = page.summaryChips
        /\ summaryVisible = page.summaryVisible
        /\ questionCount = page.questionCount
        /\ startQuizBtnDisabled = page.startQuizBtnDisabled
        /\ errorOverlay = FALSE
        /\ swalWarning = FALSE
        /\ quizStarted = FALSE
        /\ quizQuestions = {}
        /\ lastOp = Op("initDatabase", "upToDate", Cardinality(questions))
        /\ prevFilters = EmptyFilters
        /\ calls = Pipeline
        /\ pipelines = << >>
        /\ clicks = 0

\* A handler has mutated the selections to `filters`, on the DOM d the event
\* left; onFilterStateChange runs up to its first store query.  held are the runs
\* already in flight, op is the click.
StartPipeline(filters, d, held, op) ==
    /\ Len(pipelines) < MaxInFlight
    /\ clicks < MaxClicks
    /\ clicks' = clicks + 1
    /\ MaySelect(filters, d.checked)
    /\ selectedFilters' = filters
    /\ \E step \in {TopicStep(filters, d)} :
        /\ RenderLists(step.dom)
        /\ pipelines' = Append(held, step.pipe)
    /\ lastOp' = op
    /\ prevFilters' = selectedFilters
    /\ UNCHANGED <<persistent, pc, fetched, response, filteredQuestionsMasterList,
                   optionCount, optionDisabled, segmentActive, summaryChips,
                   summaryVisible, counter, errorOverlay, signals, calls>>

\* checkbox.onchange while other runs may be suspended.
AsyncCheckboxClick ==
    /\ pc = "ready"
    /\ \E key \in ListKeys \cap ClickedKeys :
       \E value \in options[key] \ optionDisabled[key] :
        /\ key \in DependentKeys => ~toggleBtnDisabled[key]
        /\ StartPipeline(HandleSelectionChange(selectedFilters, key, value),
               [Dom EXCEPT !.checked[key] =
                   IF value \in @ THEN @ \ {value} ELSE @ \cup {value}],
               FreezeOnToggle(pipelines, key, selectedFilters),
               Op("checkbox", key, value))

\* A segmented button's onclick while other runs may be suspended.
AsyncSegmentClick ==
    /\ pc = "ready"
    /\ \E key \in SegmentedKeys \cap ClickedKeys : \E value \in options[key] :
        StartPipeline(HandleSelectionChange(selectedFilters, key, value), Dom,
            FreezeOnToggle(pipelines, key, selectedFilters), Op("segment", key, value))

\* A summary chip's close button while other runs may be suspended.
AsyncChipClick ==
    /\ pc = "ready"
    /\ \E chip \in summaryChips :
        StartPipeline(HandleSelectionChange(selectedFilters, chip[1], chip[2]), Dom,
            FreezeOnToggle(pipelines, chip[1], selectedFilters),
            Op("chip", chip[1], chip[2]))

\* resetFilters while other runs may be suspended.
AsyncResetClick ==
    /\ pc = "ready"
    /\ StartPipeline(ResetFilters(selectedFilters), UncheckAll(Dom),
           FreezeSubjects(FreezeTopics(pipelines, selectedFilters.topic),
                          selectedFilters.subject),
           Op("reset", "", 0))

\* The topics of updateDependentFilters arrive: the topic list is rebuilt, the
\* function goes on to the sub-topics.
TopicsDone ==
    \E i \in 1..Len(pipelines) :
        LET run == pipelines[i]
            relevant == {r.topic : r \in AnyOf(store, "subject", run.query.subject)}
            d == PopulateMultiSelect([Dom EXCEPT !.listItems["topic"] = Sort(relevant)],
                                     selectedFilters, "topic", relevant)
        IN  /\ run.at = "topics"
            /\ \E step \in {SubTopicStep(selectedFilters, d, run.subjects, run.topics)} :
                /\ RenderLists(step.dom)
                /\ pipelines' = [pipelines EXCEPT ![i] = step.pipe]
            /\ UNCHANGED <<clicks, persistent, pc, fetched, response, session, optionCount,
                           optionDisabled, segmentActive, summaryChips, summaryVisible,
                           counter, errorOverlay, signals, history>>

\* The sub-topics arrive: the subTopic list is rebuilt, applyFilters issues its query.
SubTopicsDone ==
    \E i \in 1..Len(pipelines) :
        LET run == pipelines[i]
            relevant ==
                {r.subTopic : r \in {q \in AnyOf(store, "subject", run.query.subject) :
                                        q.topic \in run.query.topic}}
        IN  /\ run.at = "subTopics"
            /\ RenderLists(PopulateMultiSelect(
                   [Dom EXCEPT !.listItems["subTopic"] = Sort(relevant)],
                   selectedFilters, "subTopic", relevant))
            /\ pipelines' = [pipelines EXCEPT ![i] = IssueApply(selectedFilters)]
            /\ UNCHANGED <<clicks, persistent, pc, fetched, response, session, optionCount,
                           optionDisabled, segmentActive, summaryChips, summaryVisible,
                           counter, errorOverlay, signals, history>>

\* toArray of applyFilters arrives: the list and the count are written, the
\* counts of the first key are asked for.
ApplyDone ==
    \E i \in 1..Len(pipelines) :
        LET run == pipelines[i]
            filtered == ApplyFilters(store, run.query)
        IN  /\ run.at = "apply"
            /\ filteredQuestionsMasterList' = filtered
            /\ questionCount' = Cardinality(filtered)
            /\ startQuizBtnDisabled' = (Cardinality(filtered) = 0)
            /\ pipelines' = [pipelines EXCEPT ![i] = IssueCounts(selectedFilters, 1)]
            /\ UNCHANGED <<clicks, persistent, pc, fetched, response, selectedFilters,
                           view, errorOverlay, signals, history>>

\* The counts of one key arrive: updateFilterUI, then the next key, or the
\* summary bar after the last.
CountsDone ==
    \E i \in 1..Len(pipelines) :
        LET run == pipelines[i]
            key == FilterKeys[run.key]
            ui == UpdateFilterUI(key, selectedFilters[key], options[key], checked[key],
                                 CountsOf(store, run.query, key))
        IN  /\ run.at = "counts"
            /\ optionCount' = [optionCount EXCEPT ![key] = ui.optionCount]
            /\ optionDisabled' = [optionDisabled EXCEPT ![key] = ui.optionDisabled]
            /\ segmentActive' =
                  IF key \in SegmentedKeys
                  THEN [segmentActive EXCEPT ![key] = ui.segmentActive]
                  ELSE segmentActive
            /\ IF run.key < Len(FilterKeys)
               THEN /\ pipelines' =
                          [pipelines EXCEPT ![i] = IssueCounts(selectedFilters, run.key + 1)]
                    /\ UNCHANGED <<summaryChips, summaryVisible>>
               ELSE /\ pipelines' = Remove(pipelines, i)
                    /\ summaryChips' = Chips(selectedFilters)
                    /\ summaryVisible' = (TotalSelected(selectedFilters) > 0)
            /\ UNCHANGED <<clicks, persistent, pc, fetched, response, session, options, checked,
                           listItems, toggleBtnDisabled, counter, errorOverlay, signals,
                           history>>

NextAsync ==
    \/ AsyncCheckboxClick
    \/ AsyncSegmentClick
    \/ AsyncChipClick
    \/ AsyncResetClick
    \/ TopicsDone
    \/ SubTopicsDone
    \/ ApplyDone
    \/ CountsDone

SpecAsync == InitAsync /\ [][NextAsync]_vars

(***************************************************************************)
(* C17.  One user action at a time.                                        *)
(***************************************************************************)
\* C17: each user action completes its compute-and-render cycle, every suspended
\* store query included, before the next user action is accepted: a click is
\* handled, and the Filter State mutated, only while no run is suspended.
C17_OneActionAtATime ==
    [][clicks' # clicks \/ selectedFilters' # selectedFilters => pipelines = << >>]_vars

(***************************************************************************)
(* C18.  The list once two overlapping toggles have both completed.        *)
(***************************************************************************)
\* Both clicks of the session so far were checkbox or segment toggles: the first
\* left a selection, the second is the last click.
TwoToggles ==
    /\ clicks = 2
    /\ lastOp.op \in {"checkbox", "segment"}
    /\ prevFilters # EmptyFilters

\* C18: when a second toggle is triggered while the first toggle's run is still
\* suspended on a store query and the query results arrive in any order, then
\* once both runs have completed the Filtered Master List is the set of records
\* matching the final Filter State.
C18_ListMatchesFinalStateAtQuiescence ==
    TwoToggles /\ pipelines = << >> =>
        filteredQuestionsMasterList = Matching(selectedFilters, {})

(***************************************************************************)
(* C19.  Dependent selections stay under the selected parents.             *)
(***************************************************************************)
\* C19: in every reachable state, clicks on stale checkboxes and stale chips
\* included, every selected topic is the topic of a record whose subject is
\* selected and every selected subTopic is the subTopic of a record whose topic
\* is selected.
C19_DependentSelectionsUnderParents ==
    /\ \A t \in selectedFilters.topic :
        \E r \in store : r.topic = t /\ r.subject \in selectedFilters.subject
    /\ \A u \in selectedFilters.subTopic :
        \E r \in store : r.subTopic = u /\ r.topic \in selectedFilters.topic

(***************************************************************************)
(* C21.  The version marker against the store, across runs.                *)
(***************************************************************************)
\* The stores a run leaves when the bulk insert of a fetched file into an empty
\* store has completed.
CompleteDatasets == {Range(bank) : bank \in {b \in Banks : ~BulkAddFails(b, {})}}

\* C21: across any sequence of initDatabase runs, each of which may fail at the
\* clear, the fetch, the parse or the bulk insert, the version marker is written
\* only after a bulk insert has completed: whenever the marker equals the
\* required version the store holds a completely inserted dataset, never the
\* partial store a failed run left; a failed run leaves the marker at its
\* previous value, and a run that starts on an incomplete store repopulates it
\* instead of returning at once.
C21_MarkerImpliesCompleteStore ==
    /\ [](dbVersion = DB_VERSION => store \in CompleteDatasets)
    /\ [][/\ pc' = "failed" /\ pc # "failed" => dbVersion' = dbVersion
          /\ dbVersion' # dbVersion =>
                pc = "insert" /\ pc' = "populate" /\ ~BulkAddFails(response, store)
          /\ pc = "start" /\ store \notin CompleteDatasets => pc' # "populate"]_vars

====
